---- MODULE Spec2Model ----
(***************************************************************************)
(* Huffman compressor (src/src/main.rs): frequency table, tree builder,    *)
(* code table generator, encoder, decoder and the command line front end.  *)
(*                                                                         *)
(* A Rust String is a sequence of one-character strings, a HashMap is a    *)
(* function whose DOMAIN is its key set, an Option is <<>> (None) or <<x>> *)
(* (Some(x)).  The BinaryHeap is the set of its nodes: two nodes of one    *)
(* heap never compare equal as values because every symbol is the          *)
(* character of exactly one leaf.  pop() returns a greatest node under     *)
(* Ord; which one among several greatest nodes depends on the HashMap's    *)
(* randomised iteration order and is a nondeterministic choice here.       *)
(***************************************************************************)
EXTENDS Integers, Sequences, FiniteSets, TLC

VARIABLES
    caller,        \* who runs the core: "lib" (compress then decompress), "decode", "main"
    pc,            \* position in the program
    input,         \* huffman_compress: input
    frequencies,   \* huffman_compress: frequencies
    heap,          \* build_huffman_tree: heap
    left,          \* build_huffman_tree: left of the last iteration (Option)
    right,         \* build_huffman_tree: right of the last iteration (Option)
    merges,        \* build_huffman_tree: iterations of the while loop so far
    root,          \* huffman_compress: root (Option, None until returned)
    codes,         \* huffman_compress: codes / huffman_decompress: codes
    compressed,    \* huffman_compress: compressed / huffman_decompress: compressed
    reverse_codes, \* huffman_decompress: reverse_codes
    result,        \* huffman_decompress: result
    flag_c,        \* command line: -c given
    flag_u,        \* command line: -u given
    input_path,    \* command line: value of -f
    readable,      \* whether fs::read_to_string(input) succeeds
    branch,        \* main: the arm of the mode dispatch that ran
    out_file,      \* the output file (Option: None until written)
    stderr         \* lines printed to standard error

vars == <<caller, pc, input, frequencies, heap, left, right, merges, root, codes,
          compressed, reverse_codes, result, flag_c, flag_u, input_path, readable,
          branch, out_file, stderr>>

coreVars == <<input, frequencies, heap, left, right, merges, root, codes,
              compressed, reverse_codes, result>>

mainVars == <<flag_c, flag_u, input_path, readable, branch, out_file, stderr>>

(***************************************************************************)
(* Bounds                                                                  *)
(***************************************************************************)
\* longest input text
MaxLen == 5
\* longest bit-string handed to the decoder on its own
MaxBits == 3
\* longest code of a code table handed to the decoder on its own
MaxCodeLen == 2
\* most entries of a code table handed to the decoder on its own
MaxTableSize == 2

Alphabet == {"a", "b", "c", "d"}

BitChars == {"0", "1"}

Strings(S, n) == UNION {[1..k -> S] : k \in 0..n}

Texts == Strings(Alphabet, MaxLen)

BitStrings(n) == Strings(BitChars, n)

DecodeTables ==
    UNION {[S -> BitStrings(MaxCodeLen)] :
             S \in {T \in SUBSET Alphabet : Cardinality(T) <= MaxTableSize}}

\* values of -f: a plain path, and a path holding a line break
Paths == {<<"i", "n">>, <<"i", "\n", "n">>}

(***************************************************************************)
(* Option and HashMap                                                      *)
(***************************************************************************)
None == <<>>

Some(x) == <<x>>

is_some(o) == o # <<>>

unwrap(o) == o[1]

EmptyMap == [k \in {} |-> <<>>]

\* HashMap::insert: the value of an existing key is replaced
MapInsert(m, k, v) == [x \in (DOMAIN m) \cup {k} |-> IF x = k THEN v ELSE m[x]]

(***************************************************************************)
(* HuffmanNode                                                             *)
(***************************************************************************)
HuffmanNode_new(frequency, character) ==
    [frequency |-> frequency, character |-> character, left |-> None, right |-> None]

\* usize::cmp
usize_cmp(a, b) == IF a < b THEN "Less" ELSE IF a = b THEN "Equal" ELSE "Greater"

\* a plausible slip: the natural order, which makes the BinaryHeap a max-heap
cmp_natural(self, other) == usize_cmp(self.frequency, other.frequency)

\* impl Ord for HuffmanNode: reversed, so that the max-heap pops the lowest frequency
cmp(self, other) == usize_cmp(other.frequency, self.frequency)

\* the nodes BinaryHeap::pop may return: the greatest under Ord
heap_pop(h) == {n \in h : \A m \in h : cmp(n, m) # "Less"}

\* a plausible slip: the merged node takes the frequency of its left child only
internal_node_left_only(l, r) ==
    [frequency |-> l.frequency, character |-> None, left |-> Some(l), right |-> Some(r)]

\* the internal node of one loop iteration
internal_node(l, r) ==
    [frequency |-> l.frequency + r.frequency, character |-> None,
     left |-> Some(l), right |-> Some(r)]

(***************************************************************************)
(* Frequency table                                                         *)
(***************************************************************************)
RECURSIVE count_chars(_, _, _)
\* for character in input.chars() { *frequencies.entry(character).or_insert(0) += 1 }
count_chars(text, i, freq) ==
    IF i > Len(text) THEN freq
    ELSE LET c == text[i]
             old == IF c \in DOMAIN freq THEN freq[c] ELSE 0
         IN count_chars(text, i + 1, MapInsert(freq, c, old + 1))

(***************************************************************************)
(* Code table generator                                                    *)
(***************************************************************************)
RECURSIVE build_codes_no_right_bit(_, _, _)
\* a plausible slip: the right child inherits the prefix unchanged
build_codes_no_right_bit(node, prefix, table) ==
    IF is_some(node.character)
    THEN MapInsert(table, unwrap(node.character), prefix)
    ELSE LET t1 == IF is_some(node.left)
                   THEN build_codes_no_right_bit(unwrap(node.left), Append(prefix, "0"), table)
                   ELSE table
         IN IF is_some(node.right)
            THEN build_codes_no_right_bit(unwrap(node.right), prefix, t1)
            ELSE t1

RECURSIVE build_codes_same_bit(_, _, _)
\* a plausible slip: both children get the bit "0"
build_codes_same_bit(node, prefix, table) ==
    IF is_some(node.character)
    THEN MapInsert(table, unwrap(node.character), prefix)
    ELSE LET t1 == IF is_some(node.left)
                   THEN build_codes_same_bit(unwrap(node.left), Append(prefix, "0"), table)
                   ELSE table
         IN IF is_some(node.right)
            THEN build_codes_same_bit(unwrap(node.right), Append(prefix, "0"), t1)
            ELSE t1

RECURSIVE build_codes(_, _, _)
\* fn build_codes: a leaf records the prefix, an internal node descends left with
\* "0" appended and right with "1" appended
build_codes(node, prefix, table) ==
    IF is_some(node.character)
    THEN MapInsert(table, unwrap(node.character), prefix)
    ELSE LET t1 == IF is_some(node.left)
                   THEN build_codes(unwrap(node.left), Append(prefix, "0"), table)
                   ELSE table
         IN IF is_some(node.right)
            THEN build_codes(unwrap(node.right), Append(prefix, "1"), t1)
            ELSE t1

(***************************************************************************)
(* Encoder                                                                 *)
(***************************************************************************)
RECURSIVE join(_, _, _)
\* input.chars().map(|c| codes[&c].clone()).collect::<Vec<String>>().join("")
join(text, table, i) ==
    IF i > Len(text) THEN <<>>
    ELSE table[text[i]] \o join(text, table, i + 1)

\* a plausible slip: the last symbol of the input is left out
encode_drop_last(text, table) == join(SubSeq(text, 1, Len(text) - 1), table, 1)

encode(text, table) == join(text, table, 1)

(***************************************************************************)
(* Decoder                                                                 *)
(***************************************************************************)
\* the tables the insertion loop can leave in reverse_codes: one entry per distinct
\* code; of several symbols with one code the one inserted last stays, and the
\* HashMap's iteration order decides which
reverse_tables(table) ==
    {rc \in [{table[c] : c \in DOMAIN table} -> DOMAIN table] :
        \A k \in DOMAIN rc : table[rc[k]] = k}

RECURSIVE decode_bits(_, _, _, _)
\* for bit in compressed.chars(): the one-character string of the bit is looked up;
\* a bit with no entry is passed over
decode_bits(bits, rc, i, acc) ==
    IF i > Len(bits) THEN acc
    ELSE LET key == <<bits[i]>>
         IN IF key \in DOMAIN rc
            THEN decode_bits(bits, rc, i + 1, Append(acc, rc[key]))
            ELSE decode_bits(bits, rc, i + 1, acc)

(***************************************************************************)
(* Command line                                                            *)
(***************************************************************************)
\* clap: conflicts_with rejects the command line that gives both -c and -u
clap_conflict(c, u) == c /\ u

\* matches.get_one::<bool>("compress"): ArgAction::SetTrue stores false when the
\* flag is absent, so the value is always present
get_one_compress(c) == Some(c)

\* matches.get_one::<bool>("decompress"): ArgAction::SetFalse stores true when the
\* flag is absent and false when it is given
get_one_decompress(u) == Some(~u)

\* input.splitn(2, '\n'): at most two parts, split at the first line break
splitn2(s) ==
    IF \E i \in 1..Len(s) : s[i] = "\n"
    THEN LET i == CHOOSE i \in 1..Len(s) : s[i] = "\n" /\ \A j \in 1..(i - 1) : s[j] # "\n"
         IN <<SubSeq(s, 1, i - 1), SubSeq(s, i + 1, Len(s))>>
    ELSE <<s>>

\* serde_json::from_str::<HashMap<char, String>>: a text that does not start with
\* an opening brace is no JSON object
from_str_ok(s) == Len(s) > 0 /\ s[1] = "{"

\* the else-if arm of main: decompress; the text split is the value of -f
decompress_arm(path) ==
    LET content_parts == splitn2(path)
    IN IF Len(content_parts) < 2 THEN "panicked"
       ELSE IF ~from_str_ok(content_parts[2]) THEN "exit_err"
       ELSE "exit_ok"

(***************************************************************************)
(* Initial states                                                          *)
(***************************************************************************)
CoreInit ==
    /\ frequencies = EmptyMap
    /\ heap = {}
    /\ left = None
    /\ right = None
    /\ merges = 0
    /\ root = None
    /\ reverse_codes = EmptyMap
    /\ result = <<>>

NoMain ==
    /\ flag_c = FALSE
    /\ flag_u = FALSE
    /\ input_path = <<"i", "n">>
    /\ readable = TRUE
    /\ branch = "none"
    /\ out_file = None
    /\ stderr = <<>>

\* huffman_compress(T) followed by huffman_decompress on what it returned
Init ==
    /\ caller = "lib"
    /\ pc = "start"
    /\ input \in Texts
    /\ codes = EmptyMap
    /\ compressed = <<>>
    /\ CoreInit
    /\ NoMain

\* huffman_decompress on a bit-string and a code table of the caller's
InitDecode ==
    /\ caller = "decode"
    /\ pc = "compressed"
    /\ input = <<>>
    /\ codes \in DecodeTables
    /\ compressed \in BitStrings(MaxBits)
    /\ CoreInit
    /\ NoMain

\* the program started with -f and -o and any choice of -c and -u
InitMain ==
    /\ caller = "main"
    /\ pc = "main_parse"
    /\ input \in Texts
    /\ codes = EmptyMap
    /\ compressed = <<>>
    /\ CoreInit
    /\ flag_c \in BOOLEAN
    /\ flag_u \in BOOLEAN
    /\ input_path \in Paths
    /\ readable \in BOOLEAN
    /\ branch = "none"
    /\ out_file = None
    /\ stderr = <<>>

(***************************************************************************)
(* huffman_compress                                                        *)
(***************************************************************************)
CountFrequencies ==
    /\ pc = "start"
    /\ frequencies' = count_chars(input, 1, EmptyMap)
    /\ pc' = "push"
    /\ UNCHANGED <<caller, input, heap, left, right, merges, root, codes, compressed,
                   reverse_codes, result>>
    /\ UNCHANGED mainVars

PushLeaves ==
    /\ pc = "push"
    /\ heap' = {HuffmanNode_new(frequencies[c], Some(c)) : c \in DOMAIN frequencies}
    /\ pc' = "loop"
    /\ UNCHANGED <<caller, input, frequencies, left, right, merges, root, codes,
                   compressed, reverse_codes, result>>
    /\ UNCHANGED mainVars

Merge ==
    /\ pc = "loop"
    /\ Cardinality(heap) > 1
    /\ \E l \in heap_pop(heap) :
         \E r \in heap_pop(heap \ {l}) :
            /\ left' = Some(l)
            /\ right' = Some(r)
            /\ heap' = (heap \ {l, r}) \cup {internal_node(l, r)}
    /\ merges' = merges + 1
    /\ UNCHANGED <<caller, pc, input, frequencies, root, codes, compressed,
                   reverse_codes, result>>
    /\ UNCHANGED mainVars

\* heap.pop().unwrap(): a panic on the empty heap
PopRoot ==
    /\ pc = "loop"
    /\ Cardinality(heap) <= 1
    /\ IF heap = {}
       THEN /\ pc' = "panicked"
            /\ UNCHANGED <<heap, root>>
       ELSE /\ \E n \in heap_pop(heap) :
                 /\ root' = Some(n)
                 /\ heap' = heap \ {n}
            /\ pc' = "codes"
    /\ UNCHANGED <<caller, input, frequencies, left, right, merges, codes, compressed,
                   reverse_codes, result>>
    /\ UNCHANGED mainVars

BuildCodes ==
    /\ pc = "codes"
    /\ codes' = build_codes(unwrap(root), <<>>, EmptyMap)
    /\ pc' = "encode"
    /\ UNCHANGED <<caller, input, frequencies, heap, left, right, merges, root,
                   compressed, reverse_codes, result>>
    /\ UNCHANGED mainVars

\* codes[&c] panics on a symbol that has no entry
Encode ==
    /\ pc = "encode"
    /\ IF \A i \in 1..Len(input) : input[i] \in DOMAIN codes
       THEN /\ compressed' = encode(input, codes)
            /\ pc' = "compressed"
       ELSE /\ pc' = "panicked"
            /\ UNCHANGED compressed
    /\ UNCHANGED <<caller, input, frequencies, heap, left, right, merges, root, codes,
                   reverse_codes, result>>
    /\ UNCHANGED mainVars

(***************************************************************************)
(* huffman_decompress                                                      *)
(***************************************************************************)
Decompress ==
    /\ pc = "compressed"
    /\ caller \in {"lib", "decode"}
    /\ \E rc \in reverse_tables(codes) :
         /\ reverse_codes' = rc
         /\ result' = decode_bits(compressed, rc, 1, <<>>)
    /\ pc' = "done"
    /\ UNCHANGED <<caller, input, frequencies, heap, left, right, merges, root, codes,
                   compressed>>
    /\ UNCHANGED mainVars

(***************************************************************************)
(* main                                                                    *)
(***************************************************************************)
\* get_matches(), then fs::read_to_string(input)?
ParseArgs ==
    /\ pc = "main_parse"
    /\ IF clap_conflict(flag_c, flag_u)
       THEN /\ pc' = "clap_error"
            /\ stderr' = Append(stderr, "clap: the argument cannot be used with")
       ELSE /\ pc' = IF readable THEN "main_dispatch" ELSE "exit_err"
            /\ UNCHANGED stderr
    /\ UNCHANGED <<caller, flag_c, flag_u, input_path, readable, branch, out_file>>
    /\ UNCHANGED coreVars

\* if .. is_some() { compress } else if .. is_some() { decompress } else { usage }
Dispatch ==
    /\ pc = "main_dispatch"
    /\ IF is_some(get_one_compress(flag_c))
       THEN /\ branch' = "compress"
            /\ pc' = "start"
            /\ UNCHANGED <<out_file, stderr>>
       ELSE IF is_some(get_one_decompress(flag_u))
       THEN /\ branch' = "decompress"
            /\ pc' = decompress_arm(input_path)
            /\ out_file' = IF decompress_arm(input_path) = "exit_ok"
                           THEN Some(<<"text">>) ELSE out_file
            /\ UNCHANGED stderr
       ELSE /\ branch' = "usage"
            /\ stderr' = Append(stderr,
                   "Please specify either --compress (-c) or --decompress (-u).")
            /\ pc' = "exit_ok"
            /\ UNCHANGED out_file
    /\ UNCHANGED <<caller, flag_c, flag_u, input_path, readable>>
    /\ UNCHANGED coreVars

\* fs::write(output, format!("{}\n{}", compressed, codes_serialized))
WriteOutput ==
    /\ pc = "compressed"
    /\ caller = "main"
    /\ out_file' = Some(<<compressed, "\n", codes>>)
    /\ pc' = "exit_ok"
    /\ UNCHANGED <<caller, flag_c, flag_u, input_path, readable, branch, stderr>>
    /\ UNCHANGED coreVars

(***************************************************************************)
(* Specifications                                                          *)
(***************************************************************************)
Next ==
    \/ CountFrequencies
    \/ PushLeaves
    \/ Merge
    \/ PopRoot
    \/ BuildCodes
    \/ Encode
    \/ Decompress

Spec == Init /\ [][Next]_vars

NextDecode == Decompress

SpecDecode == InitDecode /\ [][NextDecode]_vars

NextMain ==
    \/ ParseArgs
    \/ Dispatch
    \/ CountFrequencies
    \/ PushLeaves
    \/ Merge
    \/ PopRoot
    \/ BuildCodes
    \/ Encode
    \/ WriteOutput

SpecMain == InitMain /\ [][NextMain]_vars

(***************************************************************************)
(* Vocabulary of the properties                                            *)
(***************************************************************************)
Range(s) == {s[i] : i \in DOMAIN s}

\* occurrences of symbol c in the text
Occurrences(text, c) == Cardinality({i \in DOMAIN text : text[i] = c})

IsPrefixAt(code, bits, p) ==
    /\ p + Len(code) - 1 <= Len(bits)
    /\ SubSeq(bits, p, p + Len(code) - 1) = code

IsProperPrefix(a, b) == Len(a) < Len(b) /\ IsPrefixAt(a, b, 1)

RECURSIVE SumFrequency(_)
SumFrequency(nodes) ==
    IF nodes = {} THEN 0
    ELSE LET n == CHOOSE n \in nodes : TRUE
         IN n.frequency + SumFrequency(nodes \ {n})

RECURSIVE SumCodeBits(_, _, _)
\* sum over the symbols of S of occurrences * code length
SumCodeBits(S, text, table) ==
    IF S = {} THEN 0
    ELSE LET c == CHOOSE c \in S : TRUE
         IN Occurrences(text, c) * Len(table[c]) + SumCodeBits(S \ {c}, text, table)

RECURSIVE Offset(_, _, _)
\* number of bits the codes of the first i - 1 symbols take
Offset(text, table, i) ==
    IF i <= 1 THEN 0 ELSE Offset(text, table, i - 1) + Len(table[text[i - 1]])

RECURSIVE Leaves(_)
\* the characters of the leaves of a tree, left to right
Leaves(node) ==
    IF is_some(node.character) THEN <<unwrap(node.character)>>
    ELSE (IF is_some(node.left) THEN Leaves(unwrap(node.left)) ELSE <<>>)
         \o (IF is_some(node.right) THEN Leaves(unwrap(node.right)) ELSE <<>>)

\* the code table of huffman_compress exists
CodesBuilt == caller = "lib" /\ pc \in {"encode", "compressed", "done"}

\* huffman_compress has returned
Compressed == caller = "lib" /\ pc \in {"compressed", "done"}

\* a run of the core or of the program has ended; the two Err values are the
\* explicit failure results the error design names
Terminal == {"done", "panicked", "exit_ok", "exit_err", "clap_error",
             "Err(EmptyInput)", "Err(UnmatchedBits)"}

\* a non-empty table the intended decoder reads without ambiguity
WellFormed(table) ==
    /\ DOMAIN table # {}
    /\ \A c \in DOMAIN table : table[c] # <<>>
    /\ \A c, d \in DOMAIN table : c # d =>
          /\ table[c] # table[d]
          /\ ~IsProperPrefix(table[c], table[d])

MatchingCodes(bits, table, p) == {c \in DOMAIN table : IsPrefixAt(table[c], bits, p)}

RECURSIVE Unmatched(_, _, _)
\* greedy longest-prefix decoding from position p reaches a position, before the
\* end of the bit-string, from which no code matches
Unmatched(bits, table, p) ==
    IF p > Len(bits) THEN FALSE
    ELSE IF MatchingCodes(bits, table, p) = {} THEN TRUE
    ELSE LET c == CHOOSE c \in MatchingCodes(bits, table, p) :
                     \A d \in MatchingCodes(bits, table, p) : Len(table[d]) <= Len(table[c])
         IN Unmatched(bits, table, p + Len(table[c]))

(***************************************************************************)
(* Claims                                                                  *)
(***************************************************************************)

\* C1: round trip: for every non-empty input text T, decompressing what
\* huffman_compress(T) returned, with the code table it returned, gives T back.
C1_RoundTrip ==
    (caller = "lib" /\ pc = "done" /\ input # <<>>) => result = input

\* C2: prefix-free: in the code table built from the tree of any non-empty
\* frequency table no code is a proper prefix of another code.
C2_PrefixFree ==
    CodesBuilt =>
       \A x, y \in DOMAIN codes : x # y => ~IsProperPrefix(codes[x], codes[y])

C2_Witness ==
    /\ CodesBuilt
    /\ Cardinality(DOMAIN codes) = 4
    /\ \E x, y \in DOMAIN codes : Len(codes[x]) = 1 /\ Len(codes[y]) = 3

\* C3: single symbol: a text of one distinct symbol repeated n >= 1 times gets a
\* code table of exactly one entry whose code is non-empty, a non-empty encoded
\* stream, and decompressing the stream with the table returns the text.
C3_SingleSymbol ==
    (caller = "lib" /\ pc = "done" /\ Cardinality(Range(input)) = 1) =>
       /\ Cardinality(DOMAIN codes) = 1
       /\ \A c \in DOMAIN codes : codes[c] # <<>>
       /\ compressed # <<>>
       /\ result = input

\* C4: empty input: compressing the empty text ends in an explicit EmptyInput
\* failure result returned to the caller, and no tree, code table or encoded
\* stream is produced.
C4_EmptyInput ==
    (caller = "lib" /\ input = <<>> /\ pc \in Terminal) =>
       /\ pc = "Err(EmptyInput)"
       /\ root = None
       /\ codes = EmptyMap
       /\ compressed = <<>>

\* C5: code-length monotonicity: in the code table of huffman_compress, a symbol
\* that occurs strictly more often than another has a code no longer than the
\* other's.
C5_Monotone ==
    CodesBuilt =>
       \A x, y \in DOMAIN codes :
          Occurrences(input, x) > Occurrences(input, y) => Len(codes[x]) <= Len(codes[y])

C5_Witness ==
    /\ CodesBuilt
    /\ \E x, y \in DOMAIN codes :
          /\ Occurrences(input, x) > Occurrences(input, y)
          /\ Len(codes[x]) < Len(codes[y])

\* C6: unmatched bits: when the bit-string holds a position from which no code of
\* the table matches as a prefix before the string is exhausted, decoding ends in
\* an explicit UnmatchedBits failure; it never passes over the bits and returns a
\* text as success.
C6_UnmatchedBits ==
    (/\ caller = "decode"
     /\ pc \in Terminal
     /\ WellFormed(codes)
     /\ Unmatched(compressed, codes, 1)) => pc = "Err(UnmatchedBits)"

\* C7: mode dispatch: with only -c main runs the compress path, with only -u the
\* decompress path, and with neither flag it prints the usage message and ends
\* without writing the output file.
C7_ModeDispatch ==
    (caller = "main" /\ pc \in Terminal /\ readable) =>
       /\ (flag_c /\ ~flag_u) => branch = "compress"
       /\ (flag_u /\ ~flag_c) => branch = "decompress"
       /\ (~flag_c /\ ~flag_u) =>
             /\ branch = "usage"
             /\ out_file = None
             /\ stderr # <<>>

\* C8: encoder output: for every non-empty input text the encoded stream is the
\* concatenation, in input order and without separators, of the code of each
\* symbol; its length is the sum over the distinct symbols of occurrences times
\* code length.
C8_EncoderOutput ==
    (Compressed /\ input # <<>>) =>
       /\ \A i \in 1..Len(input) :
             IsPrefixAt(codes[input[i]], compressed, Offset(input, codes, i) + 1)
       /\ Len(compressed) = Offset(input, codes, Len(input) + 1)
       /\ Len(compressed) = SumCodeBits(Range(input), input, codes)

C8_Witness ==
    /\ Compressed
    /\ Cardinality(Range(input)) >= 3
    /\ Len(compressed) > Len(input)
    /\ \E x, y \in DOMAIN codes : Len(codes[x]) # Len(codes[y])

\* C9: merge loop: every iteration removes the two lowest-frequency nodes of the
\* heap and inserts one node whose frequency is their sum, so the frequencies in
\* the heap keep adding up to the length of the text; with n >= 1 distinct symbols
\* the loop ends after exactly n - 1 merges with one node, the root, whose
\* frequency is the length of the text.
C9_MergeLoop ==
    /\ (pc = "loop" /\ input # <<>>) =>
          /\ SumFrequency(heap) = Len(input)
          /\ Cardinality(heap) + merges = Cardinality(Range(input))
          /\ merges > 0 =>
                LET l == unwrap(left)
                    r == unwrap(right)
                IN /\ l \notin heap
                   /\ r \notin heap
                   /\ l.frequency <= r.frequency
                   /\ \E n \in heap :
                         /\ n.left = left
                         /\ n.right = right
                         /\ n.frequency = l.frequency + r.frequency
                         /\ \A m \in heap \ {n} : r.frequency <= m.frequency
    /\ is_some(root) =>
          /\ merges = Cardinality(Range(input)) - 1
          /\ unwrap(root).frequency = Len(input)
          /\ heap = {}

C9_Witness ==
    /\ is_some(root)
    /\ merges = 3
    /\ unwrap(root).frequency = 5

\* C10: code table completeness: for a non-empty text the keys of the code table
\* are exactly the distinct symbols of the text, each the character of exactly
\* one leaf; the codes of distinct symbols are distinct, so the decoder's inverse
\* mapping has as many entries as the code table.
C10_Complete ==
    (CodesBuilt /\ input # <<>>) =>
       /\ DOMAIN codes = Range(input)
       /\ Len(Leaves(unwrap(root))) = Cardinality(Range(input))
       /\ Range(Leaves(unwrap(root))) = Range(input)
       /\ \A x, y \in DOMAIN codes : x # y => codes[x] # codes[y]
       /\ pc = "done" =>
             Cardinality(DOMAIN reverse_codes) = Cardinality(DOMAIN codes)

C10_Witness ==
    /\ caller = "lib"
    /\ pc = "done"
    /\ Cardinality(DOMAIN codes) = 4
    /\ Cardinality(DOMAIN reverse_codes) = 4

====
